---- MODULE Spec2Model ----
(***************************************************************************)
(* Slice-timing correction of nipy (nipy/modalities/fmri/slice_time.py).   *)
(*                                                                         *)
(* Arrays are functions over 0-based indices, as in numpy.  Real numbers   *)
(* are exact: a rational is a reduced pair <<n, d>> with d > 0, and a      *)
(* value that the sinc kernel produces is a number a + b/pi with a and b   *)
(* rational (sinc at a half-integer is a rational multiple of 1/pi).       *)
(***************************************************************************)
EXTENDS Integers, Sequences, FiniteSets, TLC

\* ------------------------------------------------------------------ bounds

\* Number of volumes of the series (time points).
NVol == 3
\* Shape of one volume: (D0, D1).
D0 == 2
D1 == 2

\* ------------------------------------------------------------- rationals

Abs(x) == IF x < 0 THEN -x ELSE x

RECURSIVE GCD(_, _)
GCD(a, b) == IF b = 0 THEN a ELSE GCD(b, a % b)

\* The reduced fraction n/d (d # 0), with a positive denominator.
Rat(n, d) ==
  LET g == GCD(Abs(n), Abs(d))
      s == IF d < 0 THEN -1 ELSE 1
  IN  <<(s * n) \div g, (s * d) \div g>>

RInt(n) == <<n, 1>>
RZero == <<0, 1>>
ROne == <<1, 1>>
RAdd(x, y) == Rat(x[1] * y[2] + y[1] * x[2], x[2] * y[2])
RNeg(x) == <<-x[1], x[2]>>
RSub(x, y) == RAdd(x, RNeg(y))
RMul(x, y) == Rat(x[1] * y[1], x[2] * y[2])
RDiv(x, y) == Rat(x[1] * y[2], x[2] * y[1])
RLt(x, y) == x[1] * y[2] < y[1] * x[2]
RLe(x, y) == x[1] * y[2] <= y[1] * x[2]
RAbs(x) == <<Abs(x[1]), x[2]>>
RIsInt(x) == x[2] = 1

\* Sum of f[0] .. f[n-1], f rational-valued.
RECURSIVE RSum(_, _)
RSum(f, n) == IF n = 0 THEN RZero ELSE RAdd(RSum(f, n - 1), f[n - 1])

RMin(f, n) == CHOOSE v \in {f[i] : i \in 0..(n - 1)} : \A i \in 0..(n - 1) : RLe(v, f[i])
RMax(f, n) == CHOOSE v \in {f[i] : i \in 0..(n - 1)} : \A i \in 0..(n - 1) : RLe(f[i], v)

\* Length of a 0-based array.
Size(f) == Cardinality(DOMAIN f)

\* ------------------------------------------------- numbers a + b/pi

Num(a, b) == [t |-> "num", a |-> a, b |-> b, s |-> <<>>]
NumOfRat(x) == Num(x, RZero)
NZero == Num(RZero, RZero)
\* The rational a number of the input data is (its 1/pi part is zero).
RatOf(u) == u.a
NAdd(u, v) == Num(RAdd(u.a, v.a), RAdd(u.b, v.b))
\* A number times a rational.
NScale(u, x) == Num(RMul(u.a, x), RMul(u.b, x))

\* Sum over i < n of w[i] * x[i], w numbers and x rationals: one entry of
\* np.dot(d, x).
RECURSIVE NDot(_, _, _)
NDot(w, x, n) ==
  IF n = 0 THEN NZero ELSE NAdd(NDot(w, x, n - 1), NScale(w[n - 1], x[n - 1]))

\* ------------------------------------------------------------ np.allclose

\* np.allclose(a, b) for an array a and a scalar b, with numpy's defaults
\* rtol = 1e-5, atol = 1e-8: all |a - b| <= atol + rtol * |b|, i.e.
\* 10^8 * |a - b| <= 1 + 10^3 * |b|.
AllClose(a, n, b) ==
  \A i \in 0..(n - 1) :
    RLe(RMul(RInt(100000000), RAbs(RSub(a[i], b))),
        RAdd(ROne, RMul(RInt(1000), RAbs(b))))

\* np.diff(t) of an array of n entries.
Diff(t, n) == [i \in 0..(n - 2) |-> RSub(t[i + 1], t[i])]

\* ------------------------------------------------------------- nd-arrays

\* The index tuples of an array of the given shape.
RECURSIVE IndexSet(_)
IndexSet(shape) ==
  IF shape = <<>> THEN {<<>>}
  ELSE {<<a>> \o r : a \in 0..(shape[1] - 1), r \in IndexSet(Tail(shape))}

\* An array: its shape and its elements by index tuple.
Array(shape, v) == [shape |-> shape, v |-> v]

\* Results of calls that may raise.
Ok(y) == [ok |-> TRUE, err |-> "", y |-> y]
Raise(e) == [ok |-> FALSE, err |-> e, y |-> <<>>]

\* ------------------------------- scipy.interpolate.interp1d, kind='linear'

\* np.searchsorted(x, v): the number of entries of the sorted x below v.
SearchSorted(x, n, v) == Cardinality({i \in 0..(n - 1) : RLt(x[i], v)})

Clip(v, lo, hi) == IF v < lo THEN lo ELSE IF v > hi THEN hi ELSE v

\* interp1d(x, y, **kw): the evaluator keeps x and its own copy of y.
Interp1dBuild(x, y, kw) ==
  [kind |-> "interp1d", x |-> x, y |-> y, n |-> Size(x),
   bounds_error |-> kw.bounds_error, fill_value |-> kw.fill_value]

Interp1dOutOfBounds(f, v) == RLt(v, f.x[0]) \/ RLt(f.x[f.n - 1], v)

\* slope * (x_new - x_lo) + y_lo on the segment lo, hi
Interp1dSegment(f, v, lo, hi) ==
  RAdd(RMul(RDiv(RSub(f.y[hi], f.y[lo]), RSub(f.x[hi], f.x[lo])),
            RSub(v, f.x[lo])),
       f.y[lo])

\* hi = searchsorted(x, x_new) clipped to 1..len(x)-1, lo = hi - 1
Interp1dAt(f, v, idx) == Interp1dSegment(f, v, idx - 1, idx)

Interp1dLinear(f, v) ==
  Interp1dAt(f, v, Clip(SearchSorted(f.x, f.n, v), 1, f.n - 1))

\* The evaluator at the m new points tnew.
Interp1dCall(f, tnew, m) ==
  IF f.bounds_error /\ \E o \in 0..(m - 1) : Interp1dOutOfBounds(f, tnew[o])
  THEN Raise("ValueError")
  ELSE Ok([o \in 0..(m - 1) |->
            NumOfRat(IF Interp1dOutOfBounds(f, tnew[o]) THEN f.fill_value
                     ELSE Interp1dLinear(f, tnew[o]))])

\* ---------------------------------------------------------------- sinc

\* scipy's sinc(x) = sin(pi x)/(pi x), exact at the multiples of 1/2: 1 at 0,
\* 0 at the other integers, and +-2/(k pi) at x = k/2 with k odd.  The grids
\* of this model keep every argument a multiple of 1/2.
sinc(x) ==
  CASE x[1] = 0 -> Num(ROne, RZero)
    [] x[1] # 0 /\ x[2] = 1 -> NZero
    [] x[2] = 2 -> Num(RZero, Rat(IF x[1] % 4 = 1 THEN 2 ELSE -2, x[1]))

\* sinc_interp without the assert on the grid's spacing.
SincBuildUnchecked(t, x, n, tr) ==
  Ok([kind |-> "sinc", t |-> t, x |-> x, tr |-> tr, n |-> n])

\* sinc_interp(t, x, window=None): a copy of x is kept; the grid must be
\* equally spaced.
SincBuild(t, x, n, tr) ==
  IF ~AllClose(Diff(t, n), n - 1, tr) THEN Raise("AssertionError")
  ELSE Ok([kind |-> "sinc", t |-> t, x |-> x, tr |-> tr, n |-> n])

sinc_interp(t, x) == SincBuild(t, x, Size(t), RSub(t[1], t[0]))

\* sinc_interp's f(tnew).
\* _t = (tnew - t[0]) / tr, dmt = _t[:,None] - m, d = sinc(dmt), np.dot(d, x)
SincWeights(f, _t, m) ==
  [o \in 0..(m - 1) |-> [i \in 0..(f.n - 1) |-> sinc(RSub(_t[o], RInt(i)))]]

SincDot(f, d, m) == Ok([o \in 0..(m - 1) |-> NDot(d[o], f.x, f.n)])

\* The evaluator with the range's two bounds excluded.
SincCallStrict(f, tnew, m) ==
  IF ~(RLt(RSub(RMin(f.t, f.n), f.tr), RMin(tnew, m))
       /\ RLt(RMax(tnew, m), RAdd(RMax(f.t, f.n), f.tr)))
  THEN Raise("AssertionError")
  ELSE SincDot(f,
               SincWeights(f, [o \in 0..(m - 1) |->
                                RDiv(RSub(tnew[o], f.t[0]), f.tr)], m),
               m)

SincCall(f, tnew, m) ==
  IF ~(RLe(RSub(RMin(f.t, f.n), f.tr), RMin(tnew, m))
       /\ RLe(RMax(tnew, m), RAdd(RMax(f.t, f.n), f.tr)))
  THEN Raise("AssertionError")
  ELSE SincDot(f,
               SincWeights(f, [o \in 0..(m - 1) |->
                                RDiv(RSub(tnew[o], f.t[0]), f.tr)], m),
               m)

\* --------------------------------------------------------------- detrend

\* np.polyfit(t, y, 1): the least-squares line a1 * t + a0.
\* The line through n points with sums st = sum t, sy = sum y and slope a1.
PolyLine(n, st, sy, a1) ==
  [a1 |-> a1, a0 |-> RDiv(RSub(sy, RMul(a1, st)), RInt(n))]

PolySlope(n, st, sy, sty, stt) ==
  PolyLine(n, st, sy,
           RDiv(RSub(RMul(RInt(n), sty), RMul(st, sy)),
                RSub(RMul(RInt(n), stt), RMul(st, st))))

polyfit(t, y, n) ==
  PolySlope(n, RSum(t, n), RSum(y, n),
            RSum([i \in 0..(n - 1) |-> RMul(t[i], y[i])], n),
            RSum([i \in 0..(n - 1) |-> RMul(t[i], t[i])], n))

\* np.multiply.outer(x, a1) + a0[None]
Trends(x, n, p) == [i \in 0..(n - 1) |-> RAdd(RMul(x[i], p.a1), p.a0)]

\* The evaluator of a built interpolator at tnew (m points).
BaseCall(f, tnew, m) ==
  IF f.kind = "interp1d" THEN Interp1dCall(f, tnew, m) ELSE SincCall(f, tnew, m)

\* The detrending evaluator: y = g(x), y += trends.
AddTrends(y, trends, m) ==
  IF ~y.ok THEN y
  ELSE Ok([o \in 0..(m - 1) |-> NAdd(y.y[o], NumOfRat(trends[o]))])

Call(f, tnew, m) ==
  IF f.kind = "detrend"
  THEN AddTrends(BaseCall(f.g, tnew, m), Trends(tnew, m, f.p), m)
  ELSE BaseCall(f, tnew, m)

\* interp1d's defaults, and the keywords test_linear passes.
KwDefault == [bounds_error |-> TRUE, fill_value |-> RZero]
KwFill == [bounds_error |-> FALSE, fill_value |-> RZero]

\* interp1d's copy=False, passed through detrend's **kw: the evaluator keeps
\* a reference to the samples array it is given and makes no copy of it.
KwNoCopy == [bounds_error |-> TRUE, fill_value |-> RZero, copy |-> FALSE]

KeepsReference(fn, kw) ==
  fn = "interp1d" /\ "copy" \in DOMAIN kw /\ ~kw.copy

\* The undecorated interpolators: interp1d and sinc_interp.
BaseBuild(fn, kw, t, x) ==
  IF fn = "interp1d" THEN Ok(Interp1dBuild(t, x, kw)) ELSE sinc_interp(t, x)

\* The value an in-place operation stores in an array of the given dtype: a
\* float result stored in an integer array is cast, truncating toward zero.
Trunc(v) ==
  RInt(IF v[1] >= 0 THEN v[1] \div v[2] ELSE -((-v[1]) \div v[2]))

Store(dtype, v) == IF dtype = "int" THEN Trunc(v) ELSE v

\* detrend(interpolator)(input_times, data): the build result (y) and the
\* caller's data array as the call leaves it (x): the trend is subtracted in
\* place, the wrapped interpolator is built, the trend is added back.
\* data += trends, after g = interpolator(input_times, data) returned; a
\* raising interpolator leaves data as it is.
\* The wrapped evaluator g after data += trends: one that keeps a reference
\* to data reads the restored values, one that copied reads its copy.
Held(g, keeps, restored) == IF keeps THEN [g EXCEPT !.y = restored] ELSE g

DetrendReturn(g, p, restored, keeps) ==
  [ok |-> TRUE, err |-> "",
   y |-> [kind |-> "detrend", g |-> Held(g, keeps, restored), p |-> p],
   x |-> restored]

DetrendRestore(g, p, trends, data, n, dtype, keeps) ==
  IF ~g.ok THEN [ok |-> FALSE, err |-> g.err, y |-> <<>>, x |-> data]
  ELSE DetrendReturn(g.y, p,
                     [i \in 0..(n - 1) |-> Store(dtype, RAdd(data[i], trends[i]))],
                     keeps)

\* g = interpolator(input_times, data), on the data with the trend removed
DetrendInner(fn, kw, t, p, trends, data, n, dtype) ==
  DetrendRestore(BaseBuild(fn, kw, t, data), p, trends, data, n, dtype,
                 KeepsReference(fn, kw))

\* data -= trends.  The float trends do not cast to an integer array under
\* the 'same_kind' rule (numpy from 1.10 on: TypeError); under the 'unsafe'
\* rule of the earlier releases they are stored truncated.
DetrendSubtract(fn, kw, t, p, trends, data, n, dtype, casting) ==
  IF dtype = "int" /\ casting = "same_kind"
  THEN [ok |-> FALSE, err |-> "TypeError", y |-> <<>>, x |-> data]
  ELSE DetrendInner(fn, kw, t, p, trends,
                    [i \in 0..(n - 1) |-> Store(dtype, RSub(data[i], trends[i]))],
                    n, dtype)

\* trends = np.multiply.outer(input_times, a1) + a0[None]
DetrendTrends(fn, kw, t, p, data, n, dtype, casting) ==
  DetrendSubtract(fn, kw, t, p, Trends(t, n, p), data, n, dtype, casting)

\* new_interpolator(input_times, data) on an array of the given dtype.
new_interpolator(fn, kw, t, data, dtype, casting) ==
  DetrendTrends(fn, kw, t, polyfit(t, data, Size(t)), data, Size(t),
                dtype, casting)

\* The decorated interpolator on a float array.
detrend(fn, kw, t, data) ==
  new_interpolator(fn, kw, t, data, "float", "same_kind")

\* interpolator(input_times, data, **intkw) for the configured interpolator.
\* An undecorated interpolator leaves the caller's data as it is.
Untouched(b, data) == [ok |-> b.ok, err |-> b.err, y |-> b.y, x |-> data]

\* A wrapper around fast_sinc, lambda frac, data: fast_sinc(frac, data),
\* called as an interpolator: fast_sinc(input_times, data). Line 98 multiplies
\* np.arange(Fnyq+1) by frac, here the array of L input times, which do not
\* broadcast (ValueError) unless Fnyq+1 = L (L <= 2); fast_sinc then returns
\* an array, which make_filter (line 51) calls (TypeError).
WrappedFastSinc(t, data) ==
  Untouched(IF Size(t) \div 2 + 1 # Size(t) THEN Raise("ValueError")
            ELSE Raise("TypeError"),
            data)

Build(interp, t, data) ==
  CASE interp.fn \in {"interp1d", "sinc_interp"} ->
         Untouched(BaseBuild(interp.fn, interp.kw, t, data), data)
    [] interp.fn = "newinterp" -> detrend("interp1d", KwDefault, t, data)
    [] interp.fn = "sinc_interp_detrend" -> detrend("sinc_interp", KwDefault, t, data)
    [] interp.fn = "fast_sinc_wrapper" -> WrappedFastSinc(t, data)

\* ----------------------------------------------------------- make_filter

\* I[:, i] of I = np.identity(n)
BasisVec(n, i) == [k \in 0..(n - 1) |-> IF k = i THEN ROne ELSE RZero]

\* interpolator(input_times, I[:,i], *intarg, **intkw)(output_times)
CallBuilt(b, output_times) ==
  IF ~b.ok THEN Raise(b.err) ELSE Call(b.y, output_times, Size(output_times))

Probe(interp, input_times, output_times, i) ==
  CallBuilt(Build(interp, input_times, BasisVec(Size(input_times), i)),
            output_times)

\* The loop's assignment with the matrix's axes exchanged: A[i,:] = column i.
FilterMatrixTransposed(cols, nin, nout) ==
  [o \in 0..(nout - 1) |-> [i \in 0..(nin - 1) |->
     IF o < nin /\ i < nout THEN cols[o].y[i] ELSE NZero]]

\* The loop's assignments A[:,i] = column i, on A = np.zeros((nout, nin)).
FilterMatrix(cols, nin, nout) ==
  [o \in 0..(nout - 1) |-> [i \in 0..(nin - 1) |-> cols[i].y[o]]]

\* The loop over range(nin), cols[i] being what iteration i computes: the
\* first iteration that raises ends make_filter.
FilterLoop(cols, nin, nout) ==
  IF \E i \in 0..(nin - 1) : ~cols[i].ok
  THEN Raise(cols[CHOOSE i \in 0..(nin - 1) :
                    ~cols[i].ok /\ \A k \in 0..(i - 1) : cols[k].ok].err)
  ELSE Ok([A |-> FilterMatrix(cols, nin, nout), nin |-> nin, nout |-> nout])

\* make_filter(interpolator, input_times, output_times): the filter f with
\* f.A, or the first error an interpolator call raises.
make_filter(interp, input_times, output_times) ==
  FilterLoop([i \in 0..(Size(input_times) - 1) |->
               Probe(interp, input_times, output_times, i)],
             Size(input_times), Size(output_times))

\* Product of a shape's entries, and the index tuple of flat position c in
\* C order.
RECURSIVE Product(_)
Product(shape) == IF shape = <<>> THEN 1 ELSE Head(shape) * Product(Tail(shape))

RECURSIVE Unravel(_, _)
Unravel(c, shape) ==
  IF shape = <<>> THEN <<>>
  ELSE <<c \div Product(Tail(shape))>> \o Unravel(c % Product(Tail(shape)), Tail(shape))

\* f(x) that leaves the product flattened: the result reshaped to
\* (A.shape[0], prod(x.shape[1:])) and not to (A.shape[0],) + x.shape[1:].
FilterDotFlat(f, x, shape) ==
  Ok(Array(<<f.nout, Product(Tail(x.shape))>>,
           [idx \in IndexSet(<<f.nout, Product(Tail(x.shape))>>) |->
             NDot(f.A[idx[1]],
                  [i \in 0..(f.nin - 1) |->
                    RatOf(x.v[<<i>> \o Unravel(idx[2], Tail(x.shape))])],
                  f.nin)]))

\* make_filter's f(x): np.dot(A, x.reshape(x.shape[0], prod(x.shape[1:])))
\* reshaped to (A.shape[0],) + x.shape[1:]; np.dot raises on a leading axis
\* that is not nin.  For x with no trailing axis np.product(()) is the float
\* 1.0, which reshape takes as the dimension 1.
FilterDot(f, x, shape) ==
  Ok(Array(shape,
           [idx \in IndexSet(shape) |->
             NDot(f.A[idx[1]],
                  [i \in 0..(f.nin - 1) |-> RatOf(x.v[<<i>> \o Tail(idx)])],
                  f.nin)]))

FilterApply(f, x) ==
  IF x.shape[1] # f.nin THEN Raise("ValueError")
  ELSE FilterDot(f, x, <<f.nout>> \o Tail(x.shape))

\* ------------------------------------------------------- numpy indexing

\* slice(None, None, None), slice(j, j+1), and a tuple of index objects.
SliceAll == [py |-> "slice", all |-> TRUE, start |-> 0, stop |-> 0]
PySlice(start, stop) == [py |-> "slice", all |-> FALSE, start |-> start, stop |-> stop]
PyTuple(items) == [py |-> "tuple", items |-> items]

Min(a, b) == IF a < b THEN a ELSE b

\* First index and length of the range a slice selects on an axis of size n.
SliceLo(sl, n) == IF sl.all THEN 0 ELSE Min(sl.start, n)
SliceLen(sl, n) ==
  IF sl.all THEN n
  ELSE IF Min(sl.stop, n) > Min(sl.start, n) THEN Min(sl.stop, n) - Min(sl.start, n)
  ELSE 0

\* The region an index expression a[key] selects: numpy takes a key made of
\* slices as basic indexing; an element of the key that is itself a tuple is
\* taken as an index array, and a tuple of slices is none (IndexError).
Region(shape, key) ==
  IF \E q \in 1..Len(key) : key[q].py = "tuple" THEN Raise("IndexError")
  ELSE IF Len(key) > Len(shape) THEN Raise("IndexError")
  ELSE Ok([lo |-> [q \in 1..Len(shape) |->
                    IF q <= Len(key) THEN SliceLo(key[q], shape[q]) ELSE 0],
           shape |-> [q \in 1..Len(shape) |->
                    IF q <= Len(key) THEN SliceLen(key[q], shape[q]) ELSE shape[q]]])

\* a[key]
GetRegion(a, r) ==
  IF ~r.ok THEN r
  ELSE Ok(Array(r.y.shape,
                [idx \in IndexSet(r.y.shape) |->
                  a.v[[q \in 1..Len(idx) |-> idx[q] + r.y.lo[q]]]]))

GetItem(a, key) == GetRegion(a, Region(a.shape, key))

\* a[key] = b, for b of the region's shape: the array a after the assignment.
SetRegion(a, r, b) ==
  IF ~r.ok THEN r
  ELSE IF r.y.shape # b.shape THEN Raise("ValueError")
  ELSE Ok(Array(a.shape,
                [idx \in IndexSet(a.shape) |->
                  IF \A q \in 1..Len(idx) :
                       /\ idx[q] >= r.y.lo[q]
                       /\ idx[q] < r.y.lo[q] + r.y.shape[q]
                  THEN b.v[[q \in 1..Len(idx) |-> idx[q] - r.y.lo[q]]]
                  ELSE a.v[idx]]))

SetItem(a, key, b) == SetRegion(a, Region(a.shape, key), b)

\* -------------------------------------------------------- slice_generator

\* A descriptor whose output selector is that of slice 0, whatever the slice.
DescriptorFirstOutput(input_values, ij) ==
  [input_values |-> input_values, input_indices |-> ij,
   output_indices |-> PySlice(0, 1)]

\* The j-th descriptor slice_generator yields:
\* (volume_start_times + slicetimes[j], ij, ij).
Descriptor(input_values, ij) ==
  [input_values |-> input_values, input_indices |-> ij, output_indices |-> ij]

\* ij = (slice(None,None,None),)*axis + (slice(j,j+1),), unwrapped when it
\* has one element.
SliceIndex(ij) == IF Len(ij) = 1 THEN ij[1] ELSE PyTuple(ij)

\* The descriptor with the slice's offset subtracted from the volume start
\* times and not added.
slice_generator_minus(volume_start_times, slicetimes, axis, j) ==
  Descriptor([n \in DOMAIN volume_start_times |->
               RSub(volume_start_times[n], slicetimes[j])],
             SliceIndex([q \in 1..axis |-> SliceAll] \o <<PySlice(j, j + 1)>>))

slice_generator(volume_start_times, slicetimes, axis, j) ==
  Descriptor([n \in DOMAIN volume_start_times |->
               RAdd(volume_start_times[n], slicetimes[j])],
             SliceIndex([q \in 1..axis |-> SliceAll] \o <<PySlice(j, j + 1)>>))

\* -------------------------------------------------------------- fast_sinc

\* A phase angle in units of pi, reduced to [0, 2): exp(i pi x).
Phase(x) == Rat(x[1] % (2 * x[2]), x[2])

\* phs_ramp of fast_sinc for L time points, as phase angles in units of pi:
\* indices 0..Fnyq hold exp(1j*pi*k*frac*ramp_rate), the rest the reversed
\* conjugates of indices 1..Fnyq-1 (L even) or 1..Fnyq (L odd).
RampMirror(pos, L, Fnyq) ==
  [k \in 0..(L - 1) |->
    IF k <= Fnyq THEN pos[k]
    ELSE IF L % 2 = 0 THEN Phase(RNeg(pos[Fnyq - 1 - (k - (Fnyq + 1))]))
    ELSE Phase(RNeg(pos[Fnyq - (k - (Fnyq + 1))]))]

RampHalf(frac, L, Fnyq, ramp_rate) ==
  RampMirror([k \in 0..Fnyq |-> Phase(RMul(RMul(RInt(k), frac), ramp_rate))],
             L, Fnyq)

phs_ramp(frac, L) == RampHalf(frac, L, L \div 2, Rat(2, L))

\* The ramp exp(2 pi i k m / L), k = 0..L-1, of a circular shift by m samples.
ShiftRamp(m, L) == [k \in 0..(L - 1) |-> Phase(Rat(2 * k * m, L))]

\* The shifts m in 0..L-1 whose ramp the given ramp is.
RampShifts(ramp, L) == {m \in 0..(L - 1) : ramp = ShiftRamp(m, L)}

\* np.fft.ifft(np.fft.fft(x) * ramp).real at index n, for one column x of L
\* rationals: x[(n + m) % L] when the ramp is that of a shift by m samples
\* (the shift theorem); any other ramp leaves the transform pair unevaluated.
IfftShifted(shifts, ramp, x, L, n) ==
  IF shifts # {}
  THEN NumOfRat(x[(n + (CHOOSE m \in shifts : TRUE)) % L])
  ELSE [t |-> "ifft", a |-> RZero, b |-> RZero, s |-> <<n, ramp, x>>]

IfftReal(ramp, x, L, n) == IfftShifted(RampShifts(ramp, L), ramp, x, L, n)

\* fast_sinc(frac, data), time on axis 0.
FastSincRamp(ramp, data, L) ==
  Array(data.shape,
        [idx \in IndexSet(data.shape) |->
          IfftReal(ramp, [n \in 0..(L - 1) |-> RatOf(data.v[<<n>> \o Tail(idx)])],
                   L, idx[1])])

fast_sinc(frac, data) ==
  FastSincRamp(phs_ramp(frac, data.shape[1]), data, data.shape[1])

\* ------------------------------------------------------ axis_interpolator

\* The assignment made into a cleared buffer: every element outside the
\* slice's region is lost.
AxisStoreClearing(output_data, key, y) ==
  IF ~y.ok THEN y
  ELSE SetItem(Array(output_data.shape,
                     [idx \in IndexSet(output_data.shape) |-> NZero]),
               key, y.y)

\* output_data[:, output_indices] = y, for the value y the slice computed
AxisStore(output_data, key, y) ==
  IF ~y.ok THEN y ELSE SetItem(output_data, key, y.y)

\* Lines 236-238: f = make_filter(...); output_data[:,output_indices] = f(d)
AxisFilter(f, d, output_data, key) ==
  IF ~f.ok THEN f ELSE AxisStore(output_data, key, FilterApply(f.y, d))

\* The fast path without the check of the input grid's spacing.
AxisFastInputUnchecked(d, output_data, key, input_values, output_values, nin, nout, tr) ==
  IF ~AllClose(Diff(output_values, nout), nout - 1, tr)
  THEN Raise("AssertionError")
  ELSE IF nout # nin THEN Raise("AssertionError")
  ELSE SetItem(output_data, key,
               fast_sinc(RDiv(RSub(output_values[0], input_values[0]), tr), d))

\* The fast path with the fraction's sign reversed:
\* (input_values[0] - output_values[0]) / tr.
AxisFastReversed(d, output_data, key, input_values, output_values, nin, nout, tr) ==
  IF ~AllClose(Diff(output_values, nout), nout - 1, tr)
  THEN Raise("AssertionError")
  ELSE IF ~AllClose(Diff(input_values, nin), nin - 1, tr)
  THEN Raise("AssertionError")
  ELSE IF nout # nin THEN Raise("AssertionError")
  ELSE SetItem(output_data, key,
               fast_sinc(RDiv(RSub(input_values[0], output_values[0]), tr), d))

\* Lines 240-244: the fast path's checks and the call of fast_sinc
AxisFast(d, output_data, key, input_values, output_values, nin, nout, tr) ==
  IF ~AllClose(Diff(output_values, nout), nout - 1, tr)
  THEN Raise("AssertionError")
  ELSE IF ~AllClose(Diff(input_values, nin), nin - 1, tr)
  THEN Raise("AssertionError")
  ELSE IF nout # nin THEN Raise("AssertionError")
  ELSE SetItem(output_data, key,
               fast_sinc(RDiv(RSub(output_values[0], input_values[0]), tr), d))

\* The fast path chosen for everything that wraps fast_sinc, and not by
\* identity.
AxisSliceByName(d, output_data, desc, output_values, interp) ==
  IF ~d.ok THEN d
  ELSE IF interp.fn \notin {"fast_sinc", "fast_sinc_wrapper"}
  THEN AxisFilter(make_filter(interp, desc.input_values, output_values), d.y,
                  output_data, <<SliceAll, desc.output_indices>>)
  ELSE AxisFast(d.y, output_data, <<SliceAll, desc.output_indices>>,
                desc.input_values, output_values,
                Size(desc.input_values), Size(output_values),
                RSub(output_values[1], output_values[0]))

\* Lines 235-244, for the slice's data d = data[:,input_indices]
AxisSlice(d, output_data, desc, output_values, interp) ==
  IF ~d.ok THEN d
  ELSE IF interp.fn # "fast_sinc"
  THEN AxisFilter(make_filter(interp, desc.input_values, output_values), d.y,
                  output_data, <<SliceAll, desc.output_indices>>)
  ELSE AxisFast(d.y, output_data, <<SliceAll, desc.output_indices>>,
                desc.input_values, output_values,
                Size(desc.input_values), Size(output_values),
                RSub(output_values[1], output_values[0]))

\* The body of axis_interpolator's loop for one descriptor: the output array
\* after the assignment to output_data[:, output_indices], or the error.
AxisBody(data, output_data, desc, output_values, interp) ==
  AxisSlice(GetItem(data, <<SliceAll, desc.input_indices>>), output_data, desc,
            output_values, interp)

\* ------------------------------------------------------------ the inputs

\* Shape of one volume.
Shape == <<D0, D1>>

\* Slice offsets relative to the volume start, in time units.
SliceOffsets == {-3, -1, 0, 1}

\* Volume start times: equally spaced with spacing tr, and a grid whose last
\* interval is longer.
Uniform(tr) == [n \in 0..(NVol - 1) |-> RInt(n * tr)]
NonUniform == [n \in 0..(NVol - 1) |-> RInt(IF n = NVol - 1 THEN 2 * n + 1 ELSE 2 * n)]
Grids == {Uniform(1), Uniform(2), NonUniform}

\* The interpolators slice_time is called with; kw holds interp1d's keyword
\* values (the other interpolators are passed no keywords).
Interpolators ==
  {[fn |-> "interp1d", kw |-> KwDefault], [fn |-> "interp1d", kw |-> KwFill],
   [fn |-> "sinc_interp", kw |-> KwDefault], [fn |-> "fast_sinc", kw |-> KwDefault],
   [fn |-> "newinterp", kw |-> KwDefault],
   [fn |-> "sinc_interp_detrend", kw |-> KwDefault]}

\* Voxel data of the series: a linear function of time plus a per-voxel
\* constant (t/TR + c, TR the first interval), and an irregular series.
RampData(vst) ==
  Array(<<NVol>> \o Shape,
        [idx \in IndexSet(<<NVol>> \o Shape) |->
          NumOfRat(RAdd(RDiv(vst[idx[1]], RSub(vst[1], vst[0])),
                        RInt(idx[2] * D1 + idx[3])))])
IrregularData ==
  Array(<<NVol>> \o Shape,
        [idx \in IndexSet(<<NVol>> \o Shape) |->
          NumOfRat(RInt(((idx[1] + 1) * (idx[1] + 1) + 2 * idx[2]
                         + 3 * idx[3] + idx[1] * idx[2]) % 3))])
DataChoices(vst) == {RampData(vst), IrregularData}

\* Coordinate mappings of the volumes, by value: all the same, or the last
\* volume's differing.
CoordmapChoices ==
  {[n \in 1..NVol |-> "cmapA"],
   [n \in 1..NVol |-> IF n = NVol THEN "cmapB" ELSE "cmapA"]}

\* ------------------------------------------------------------- the state

VARIABLES
  image_list,     \* the input series: data (an array reference), coordmap
                  \* (an object reference per volume), volume_start_times,
                  \* slice_times, slice_axis
  heap,           \* the arrays, by reference
  cmheap,         \* the coordinate mapping objects, by reference
  interpolator,   \* slice_time's interpolator argument
  pc,             \* where the call of slice_time is
  test,           \* slice_time's local of that name
  generator,      \* the slice generator: j, the next slice index
  output_times,   \* slice_time's locals
  data,
  output_data,
  written,        \* history: the slice indices whose region was assigned
  err,            \* the exception the call ended with
  result,         \* <<the returned series>>, or <<>>
  mutated,        \* a coordinate mapping was mutated after the return
  flt,            \* make_filter used on its own: the call and its results
  unit            \* another function of the module used on its own: the call
                  \* and its results

vars == <<image_list, heap, cmheap, interpolator, pc, test, generator,
          output_times, data, output_data, written, err, result, mutated, flt,
          unit>>

NoFilter == [pc |-> "none"]
NoUnit == [pc |-> "none"]

Init ==
  /\ \E vst \in Grids, axis \in 0..(Len(Shape) - 1), cm \in CoordmapChoices :
       /\ \E st \in [0..(Shape[axis + 1] - 1) -> SliceOffsets], dt \in DataChoices(vst) :
            /\ image_list = [data |-> "image",
                             coordmap |-> [n \in 0..(NVol - 1) |-> n + 1],
                             volume_start_times |-> vst,
                             slice_times |-> [j \in DOMAIN st |-> RInt(st[j])],
                             slice_axis |-> axis]
            /\ heap = [r \in {"image"} |-> dt]
       /\ cmheap = cm
  /\ interpolator \in Interpolators
  /\ pc = "validate"
  /\ test = FALSE
  /\ generator = [j |-> 0]
  /\ output_times = <<>>
  /\ data = ""
  /\ output_data = ""
  /\ written = {}
  /\ err = ""
  /\ result = <<>>
  /\ mutated = FALSE
  /\ flt = NoFilter
  /\ unit = NoUnit

\* len(image_list) and image_list[0].shape
NumVolumes == heap[image_list.data].shape[1]
VolumeShape == Tail(heap[image_list.data].shape)

\* ------------------------------------------------------------ slice_time

\* Lines 163-165: the comparison of every volume's coordmap with the first
\* is computed into test and printed; nothing reads test.
Validate ==
  /\ pc = "validate"
  /\ test' = (\A i \in 0..(NumVolumes - 1) :
                cmheap[image_list.coordmap[i]] = cmheap[image_list.coordmap[0]])
  /\ pc' = "setup"
  /\ UNCHANGED <<image_list, heap, cmheap, interpolator, generator, output_times,
                 data, output_data, written, err, result, mutated, flt, unit>>

\* The output written in place, into the input series' array.
OutputInPlace == image_list.data

\* np.zeros((len(image_list),) + image_list[0].shape): a new array.
OutputBuffer == "output"

\* Lines 167-170: the generator, the output times, the output buffer and
\* np.asarray(image_list), a new array stacking the volumes.
Setup ==
  /\ pc = "setup"
  /\ generator' = [j |-> 0]
  /\ output_times' = image_list.volume_start_times
  /\ output_data' = OutputBuffer
  /\ data' = "data"
  /\ heap' = [r \in DOMAIN heap \cup {"data", OutputBuffer} |->
               IF r = "data" THEN heap[image_list.data]
               ELSE IF r \in DOMAIN heap THEN heap[r]
               ELSE Array(<<NumVolumes>> \o VolumeShape,
                          [idx \in IndexSet(<<NumVolumes>> \o VolumeShape) |-> NZero])]
  /\ pc' = "loop"
  /\ UNCHANGED <<image_list, cmheap, interpolator, test, written, err, result,
                 mutated, flt, unit>>

\* range(shape[axis]) of slice_generator
SliceCount == VolumeShape[image_list.slice_axis + 1]

\* One iteration of axis_interpolator's loop: the generator yields the next
\* descriptor and the body runs; an exception ends the call.
SliceOutcome(r) ==
  IF r.ok
  THEN /\ heap' = [heap EXCEPT ![output_data] = r.y]
       /\ written' = written \cup {generator.j}
       /\ UNCHANGED <<pc, err>>
  ELSE /\ pc' = "error"
       /\ err' = r.err
       /\ UNCHANGED <<heap, written>>

SliceStep ==
  /\ pc = "loop"
  /\ generator.j < SliceCount
  /\ SliceOutcome(AxisBody(heap[data], heap[output_data],
                           slice_generator(image_list.volume_start_times,
                                           image_list.slice_times,
                                           image_list.slice_axis, generator.j),
                           output_times, interpolator))
  /\ generator' = [j |-> generator.j + 1]
  /\ UNCHANGED <<image_list, cmheap, interpolator, test, output_times, data,
                 output_data, result, mutated, flt>>

NextSlice == SliceStep /\ UNCHANGED unit

\* The generator is exhausted: axis_interpolator returns None.
LoopEnd ==
  /\ pc = "loop"
  /\ generator.j >= SliceCount
  /\ pc' = "wrap"
  /\ UNCHANGED <<image_list, heap, cmheap, interpolator, test, generator,
                 output_times, data, output_data, written, err, result, mutated, flt, unit>>

\* image_list[i].coordmap handed to the output volume without copy().
ShareCoordmap(i) == image_list.coordmap[i]

\* copy(image_list[i].coordmap): the reference of a new coordinate mapping
\* object for output volume i.
CopyCoordmap(i) == NVol + 1 + i

\* np.zeros(image_list.shape[slice_axis]): the axis taken of the series'
\* shape (time first), as the older revision does.
ZeroSliceTimesOfSeries ==
  [j \in 0..(heap[image_list.data].shape[image_list.slice_axis + 1] - 1) |-> RZero]

\* np.zeros(image_list[0].shape[image_list.slice_axis])
ZeroSliceTimes == [j \in 0..(VolumeShape[image_list.slice_axis + 1] - 1) |-> RZero]

\* The state of the object copy() makes of a coordinate mapping: its own,
\* equal to the original's.
CoordmapCopy(state) == state

\* The n output volumes with the coordinate mapping objects cms.
Wrapped(n, cms) ==
  /\ cmheap' = [c \in DOMAIN cmheap \cup {cms[i] : i \in 0..(n - 1)} |->
                 IF c \in DOMAIN cmheap THEN cmheap[c]
                 ELSE CoordmapCopy(cmheap[image_list.coordmap[
                        CHOOSE i \in 0..(n - 1) : cms[i] = c]])]
  /\ result' = <<[data |-> output_data,
                  coordmap |-> cms,
                  volume_start_times |-> image_list.volume_start_times,
                  slice_times |-> ZeroSliceTimes]>>

\* Lines 177-184: every output volume is wrapped with a copy of the input
\* volume's coordmap, and the new series is returned.
Wrap ==
  /\ pc = "wrap"
  /\ Wrapped(heap[output_data].shape[1],
             [i \in 0..(heap[output_data].shape[1] - 1) |-> CopyCoordmap(i)])
  /\ pc' = "done"
  /\ UNCHANGED <<image_list, heap, interpolator, test, generator, output_times,
                 data, output_data, written, err, mutated, flt, unit>>

\* After the return, a caller mutates the state of one coordinate mapping
\* object, reached through an input or an output volume.
MutateCoordmap ==
  /\ pc = "done"
  /\ ~mutated
  /\ \E c \in DOMAIN cmheap : cmheap' = [cmheap EXCEPT ![c] = "mutated"]
  /\ mutated' = TRUE
  /\ UNCHANGED <<image_list, heap, interpolator, pc, test, generator, output_times,
                 data, output_data, written, err, result, flt, unit>>

Next == Validate \/ Setup \/ NextSlice \/ LoopEnd \/ Wrap \/ MutateCoordmap

Spec == Init /\ [][Next]_vars

\* ------------------------------------------- make_filter used on its own

\* Time grids of n points: start off, spacing tr.
GridOf(n, tr, off) == [k \in 0..(n - 1) |-> RInt(off + k * tr)]

FilterInputTimes ==
  {GridOf(n, tr, off) : n \in {NVol - 1, NVol}, tr \in {1, 2}, off \in {0, 1}}
    \cup {NonUniform}
FilterOutputTimes == {GridOf(n, tr, 0) : n \in {NVol - 1, NVol}, tr \in {1, 2}}

\* The interpolators that satisfy make_filter's calling convention.
FilterInterpolators == {i \in Interpolators : i.fn # "fast_sinc"}

\* Data to apply a filter to: a leading axis of n entries and 0, 1 or 2
\* trailing axes; q selects the values.
FilterArray(shape, q) ==
  Array(shape,
        [idx \in IndexSet(shape) |->
          NumOfRat(RInt(IF q = 0
                        THEN (idx[1] * idx[1] + Len(idx)
                              + (IF Len(idx) > 1 THEN 2 * idx[2] ELSE 0)
                              + (IF Len(idx) > 2 THEN idx[3] ELSE 0)) % 3
                        ELSE IF idx[1] = Len(idx) - 1 THEN 1 ELSE 0))])

FilterShapes(nin) ==
  {<<n>> : n \in {nin - 1, nin, nin + 1}}
    \cup {<<n, D1>> : n \in {nin, nin + 1}}
    \cup {<<nin, D0, D1>>}

FilterData(nin) == {FilterArray(shape, q) : shape \in FilterShapes(nin), q \in {0, 1}}

\* The slice_time call does not run in this specification.
InitFilter ==
  /\ image_list = [data |-> "image",
                   coordmap |-> [n \in 0..(NVol - 1) |-> n + 1],
                   volume_start_times |-> Uniform(1),
                   slice_times |-> [j \in 0..(D0 - 1) |-> RZero],
                   slice_axis |-> 0]
  /\ heap = [r \in {"image"} |-> IrregularData]
  /\ cmheap = [n \in 1..NVol |-> "cmapA"]
  /\ interpolator = [fn |-> "interp1d", kw |-> KwDefault]
  /\ pc = "idle"
  /\ test = FALSE
  /\ generator = [j |-> 0]
  /\ output_times = <<>>
  /\ data = ""
  /\ output_data = ""
  /\ written = {}
  /\ err = ""
  /\ result = <<>>
  /\ mutated = FALSE
  /\ unit = NoUnit
  /\ \E interp \in FilterInterpolators, tin \in FilterInputTimes,
        tout \in FilterOutputTimes :
       flt = [pc |-> "args", interpolator |-> interp, input_times |-> tin,
              output_times |-> tout, f |-> Raise(""), x |-> <<>>, y |-> Raise("")]

\* f = make_filter(interpolator, input_times, output_times)
MakeFilter ==
  /\ flt.pc = "args"
  /\ flt' = [flt EXCEPT !.pc = "built",
                        !.f = make_filter(flt.interpolator, flt.input_times,
                                          flt.output_times)]
  /\ UNCHANGED <<image_list, heap, cmheap, interpolator, pc, test, generator,
                 output_times, data, output_data, written, err, result, mutated,
                 unit>>

\* y = f(x), for a filter that was built
ApplyFilter ==
  /\ flt.pc = "built"
  /\ flt.f.ok
  /\ \E x \in FilterData(flt.f.y.nin) :
       flt' = [flt EXCEPT !.pc = "applied", !.x = x, !.y = FilterApply(flt.f.y, x)]
  /\ UNCHANGED <<image_list, heap, cmheap, interpolator, pc, test, generator,
                 output_times, data, output_data, written, err, result, mutated,
                 unit>>

NextFilter == MakeFilter \/ ApplyFilter

SpecFilter == InitFilter /\ [][NextFilter]_vars

\* ------------------------------------------------ properties: slice_time

AllSliceTimesZero ==
  \A j \in DOMAIN image_list.slice_times : image_list.slice_times[j] = RZero

\* The volume start times are equally spaced (sinc_interp's precondition).
UniformGrid ==
  AllClose(Diff(image_list.volume_start_times, NVol), NVol - 1,
           RSub(image_list.volume_start_times[1], image_list.volume_start_times[0]))

CallEnded == pc \in {"done", "error"}

SliceAxisOf(idx) == idx[image_list.slice_axis + 2]

\* C1: with every slice time zero, slice_time with interp1d or (on an
\* equally spaced grid) sinc_interp returns a series whose data equals the
\* input data at every volume and voxel.
C1_Identity ==
  (/\ CallEnded
   /\ AllSliceTimesZero
   /\ \/ interpolator.fn = "interp1d"
      \/ interpolator.fn = "sinc_interp" /\ UniformGrid)
  => (/\ pc = "done"
      /\ result # <<>>
      /\ heap[result[1].data] = heap[image_list.data])

\* Volume n's start time lies in the time range slice j was observed in.
InObservedRange(n, j) ==
  /\ RLe(RAdd(image_list.volume_start_times[0], image_list.slice_times[j]),
         image_list.volume_start_times[n])
  /\ RLe(image_list.volume_start_times[n],
         RAdd(image_list.volume_start_times[NVol - 1], image_list.slice_times[j]))

RepetitionTime ==
  RSub(image_list.volume_start_times[1], image_list.volume_start_times[0])

IsRamp == heap[image_list.data] = RampData(image_list.volume_start_times)

InputCoordmapsDiffer ==
  \E i \in 0..(NVol - 1) :
    cmheap[image_list.coordmap[i]] # cmheap[image_list.coordmap[0]]

\* C3: when a volume's coordinate mapping differs from the first volume's,
\* slice_time fails before the generator is built, before the output buffer
\* is allocated and before a slice is resampled, and returns no series.
C3_CoordmapValidation ==
  (InputCoordmapsDiffer /\ ~mutated)
  => (/\ pc \in {"validate", "error"}
      /\ output_data = ""
      /\ written = {}
      /\ result = <<>>)

\* C4: a returned series is a new one with as many volumes as the input,
\* the input's volume_start_times, and slice_times all zero with one entry
\* per index of a volume's slice axis.
C4_ReturnedSeries ==
  pc = "done"
  => (/\ result[1].data # image_list.data
      /\ heap[result[1].data].shape[1] = NumVolumes
      /\ DOMAIN result[1].coordmap = 0..(NumVolumes - 1)
      /\ result[1].volume_start_times = image_list.volume_start_times
      /\ DOMAIN result[1].slice_times = 0..(VolumeShape[image_list.slice_axis + 1] - 1)
      /\ \A j \in DOMAIN result[1].slice_times : result[1].slice_times[j] = RZero)

C4_Witness == pc = "done" /\ ~AllSliceTimesZero /\ written = 0..(SliceCount - 1)

\* C5: when a check fails for a slice descriptor, the pass ends with no
\* slice's result written to the output buffer.
C5_AllOrNothing == pc = "error" => written = {}

\* C6: no step of slice_time, whether the call returns or fails, changes the
\* input series' voxel data, volume_start_times, slice_times or slice_axis.
C6_InputReadOnly ==
  [][/\ image_list' = image_list
     /\ heap'[image_list.data] = heap[image_list.data]]_vars

C6_Witness ==
  /\ CallEnded
  /\ interpolator.fn \in {"newinterp", "sinc_interp_detrend"}
  /\ written # {}
  /\ heap[output_data] # heap[image_list.data]

RegionIsSlice(r, shape, j) ==
  /\ r.ok
  /\ \A q \in 1..Len(shape) :
       IF q = image_list.slice_axis + 2
       THEN r.y.lo[q] = j /\ r.y.shape[q] = 1
       ELSE r.y.lo[q] = 0 /\ r.y.shape[q] = shape[q]

DescriptorIsSlice(desc, j) ==
  /\ desc.input_values = [n \in 0..(NVol - 1) |->
                           RAdd(image_list.volume_start_times[n],
                                image_list.slice_times[j])]
  /\ desc.input_indices = desc.output_indices
  /\ RegionIsSlice(Region(heap[data].shape, <<SliceAll, desc.input_indices>>),
                   heap[data].shape, j)

\* C10: the generator yields the descriptors of j = 0..n-1 in order, and
\* descriptor j has the input grid volume_start_times + slicetimes[j] and
\* equal selectors that, applied after the time axis, select the elements of
\* slice-axis index j, for slice axis 0 and above.
C10_Descriptors ==
  pc = "loop"
  => (/\ generator.j \in 0..SliceCount
      /\ written = 0..(generator.j - 1)
      /\ generator.j < SliceCount
         => DescriptorIsSlice(slice_generator(image_list.volume_start_times,
                                              image_list.slice_times,
                                              image_list.slice_axis, generator.j),
                              generator.j))

\* ----------------------------------------------- properties: make_filter

FilterBuilt == flt.pc \in {"built", "applied"} /\ flt.f.ok

\* Column c (a tuple of trailing indices) of the data x, on the input grid.
DataColumn(x, c, nin) == [i \in 0..(nin - 1) |-> RatOf(x.v[<<i>> \o c])]

ColumnIsProbe(p, A, i, nout) ==
  p.ok /\ \A o \in 0..(nout - 1) : A[o][i] = p.y[o]

AppliedIsDirect(direct, y) ==
  direct.ok /\ y = direct.y

\* C8: column i of make_filter's matrix is the interpolator built on basis
\* vector i and evaluated at output_times, and f(Y) is
\* interpolator(input_times, Y)(output_times) on every column of the data.
C8_FilterIsInterpolation ==
  FilterBuilt
  => (/\ \A i \in 0..(flt.f.y.nin - 1) :
           ColumnIsProbe(Probe(flt.interpolator, flt.input_times,
                               flt.output_times, i),
                         flt.f.y.A, i, flt.f.y.nout)
      /\ (flt.pc = "applied" /\ flt.y.ok)
         => \A c \in IndexSet(Tail(flt.x.shape)) :
              AppliedIsDirect(
                CallBuilt(Build(flt.interpolator, flt.input_times,
                                DataColumn(flt.x, c, flt.f.y.nin)),
                          flt.output_times),
                [o \in 0..(flt.f.y.nout - 1) |-> flt.y.y.v[<<o>> \o c]]))

C8_Witness ==
  /\ flt.pc = "applied"
  /\ flt.y.ok
  /\ flt.f.y.nin # flt.f.y.nout
  /\ flt.interpolator.fn = "sinc_interp_detrend"
  /\ Len(flt.x.shape) = 3
  /\ \E idx \in IndexSet(flt.y.y.shape) : flt.y.y.v[idx] # NZero

\* C9: f(x) raises a shape error when x's leading axis is not n_in, and
\* otherwise returns an array of shape (n_out,) + x.shape[1:], for x of
\* zero, one or two trailing axes.
C9_ApplyShape ==
  flt.pc = "applied"
  => IF flt.x.shape[1] # flt.f.y.nin
     THEN ~flt.y.ok /\ flt.y.err = "ValueError"
     ELSE /\ flt.y.ok
          /\ flt.y.y.shape = <<flt.f.y.nout>> \o Tail(flt.x.shape)
          /\ DOMAIN flt.y.y.v = IndexSet(<<flt.f.y.nout>> \o Tail(flt.x.shape))

C9_Witness ==
  /\ flt.pc = "applied"
  /\ flt.f.y.nin # flt.f.y.nout
  /\ flt.x.shape[1] # flt.f.y.nin
  /\ Len(flt.x.shape) = 2
  /\ ~flt.y.ok

\* ------------------------ axis_interpolator given one generator two times

\* A caller of axis_interpolator has built the generator, the stacked data
\* and the output array, and is in its first call.
PassArgsOver(offsets) ==
  /\ \E vst \in Grids, axis \in 0..(Len(Shape) - 1) :
       /\ \E st \in [0..(Shape[axis + 1] - 1) -> offsets] :
            image_list = [data |-> "image",
                          coordmap |-> [n \in 0..(NVol - 1) |-> n + 1],
                          volume_start_times |-> vst,
                          slice_times |-> [j \in DOMAIN st |-> RInt(st[j])],
                          slice_axis |-> axis]
       /\ output_times = vst
  /\ heap = [r \in {"image", "data", "output"} |->
              IF r = "output"
              THEN Array(<<NVol>> \o Shape,
                         [idx \in IndexSet(<<NVol>> \o Shape) |-> NZero])
              ELSE IrregularData]
  /\ cmheap = [n \in 1..NVol |-> "cmapA"]
  /\ interpolator \in Interpolators
  /\ pc = "loop"
  /\ test = TRUE
  /\ generator = [j |-> 0]
  /\ data = "data"
  /\ output_data = "output"
  /\ written = {}
  /\ err = ""
  /\ result = <<>>
  /\ mutated = FALSE
  /\ flt = NoFilter

PassArgs == PassArgsOver(SliceOffsets)

InitPasses == PassArgs /\ unit = [pc |-> "pass", pass |-> 1, first |-> {}]

\* The first call returned; the caller calls axis_interpolator again with
\* the same generator object, which stands where the first loop left it.
SecondPass ==
  /\ pc = "loop"
  /\ generator.j >= SliceCount
  /\ unit.pass = 1
  /\ unit' = [unit EXCEPT !.pass = 2, !.first = written]
  /\ written' = {}
  /\ UNCHANGED <<image_list, heap, cmheap, interpolator, pc, test, generator,
                 output_times, data, output_data, err, result, mutated, flt>>

\* The second call's loop ends and axis_interpolator returns.
PassesEnd ==
  /\ pc = "loop"
  /\ generator.j >= SliceCount
  /\ unit.pass = 2
  /\ pc' = "returned"
  /\ UNCHANGED <<image_list, heap, cmheap, interpolator, test, generator,
                 output_times, data, output_data, written, err, result, mutated,
                 flt, unit>>

NextPasses == NextSlice \/ SecondPass \/ PassesEnd

SpecPasses == InitPasses /\ [][NextPasses]_vars

\* C11: a second pass over the same generator gets the descriptors the first
\* pass got, and writes every slice again.
C11_Restartable ==
  pc = "returned"
  => (written = unit.first /\ written = 0..(SliceCount - 1))

\* ------------------------------ axis_interpolator's loop body on its own

\* The descriptor's input grid, the output grid, and the interpolators,
\* among them a wrapper around fast_sinc.
AxisInputTimes ==
  {GridOf(n, tr, off) : n \in {NVol - 1, NVol}, tr \in {1, 2}, off \in {-1, 0, 1}}
    \cup {NonUniform}
AxisOutputTimes == {GridOf(NVol, 1, 0), GridOf(NVol, 2, 0), NonUniform}
AxisInterpolators ==
  {[fn |-> "fast_sinc", kw |-> KwDefault],
   [fn |-> "fast_sinc_wrapper", kw |-> KwDefault],
   [fn |-> "interp1d", kw |-> KwFill],
   [fn |-> "sinc_interp", kw |-> KwDefault]}

\* Stacked data of one slice (n time points) and a zero output array.
AxisData(n) ==
  Array(<<n, 1>>,
        [idx \in IndexSet(<<n, 1>>) |-> NumOfRat(RInt((idx[1] * idx[1] + 1) % 3))])
AxisZeros(n) == Array(<<n, 1>>, [idx \in IndexSet(<<n, 1>>) |-> NZero])

IdleCall ==
  /\ image_list = [data |-> "image",
                   coordmap |-> [n \in 0..(NVol - 1) |-> n + 1],
                   volume_start_times |-> Uniform(1),
                   slice_times |-> [j \in 0..(D0 - 1) |-> RZero],
                   slice_axis |-> 0]
  /\ heap = [r \in {"image"} |-> IrregularData]
  /\ cmheap = [n \in 1..NVol |-> "cmapA"]
  /\ interpolator = [fn |-> "interp1d", kw |-> KwDefault]
  /\ pc = "idle"
  /\ test = FALSE
  /\ generator = [j |-> 0]
  /\ output_times = <<>>
  /\ data = ""
  /\ output_data = ""
  /\ written = {}
  /\ err = ""
  /\ result = <<>>
  /\ mutated = FALSE
  /\ flt = NoFilter

InitAxis ==
  /\ IdleCall
  /\ \E interp \in AxisInterpolators, tin \in AxisInputTimes,
        tout \in AxisOutputTimes :
       unit = [pc |-> "args", interpolator |-> interp,
               desc |-> Descriptor(tin, PySlice(0, 1)),
               output_values |-> tout,
               data |-> AxisData(Size(tin)),
               output_data |-> AxisZeros(Size(tout)),
               out |-> Raise("")]

\* The buffer after the iteration: assigned, or as it was when it raised.
AxisOutcome(r, buffer) == IF r.ok THEN r.y ELSE buffer

\* One iteration of the loop, lines 233-244.
AxisIteration ==
  /\ unit.pc = "args"
  /\ unit' = [unit EXCEPT
                !.pc = "called",
                !.out = AxisBody(unit.data, unit.output_data, unit.desc,
                                 unit.output_values, unit.interpolator),
                !.output_data =
                   AxisOutcome(AxisBody(unit.data, unit.output_data, unit.desc,
                                        unit.output_values, unit.interpolator),
                               unit.output_data)]
  /\ UNCHANGED <<image_list, heap, cmheap, interpolator, pc, test, generator,
                 output_times, data, output_data, written, err, result, mutated,
                 flt>>

NextAxis == AxisIteration

SpecAxis == InitAxis /\ [][NextAxis]_vars

\* Every consecutive difference of the grid t is tr.
GridSpacingIs(t, tr) == \A k \in 0..(Size(t) - 2) : RSub(t[k + 1], t[k]) = tr

\* The output grid is equally spaced, the input grid has its spacing, and
\* the two have the same number of points.
FastGridsMatch ==
  /\ GridSpacingIs(unit.output_values,
                   RSub(unit.output_values[1], unit.output_values[0]))
  /\ GridSpacingIs(unit.desc.input_values,
                   RSub(unit.output_values[1], unit.output_values[0]))
  /\ Size(unit.desc.input_values) = Size(unit.output_values)

\* C12: with fast_sinc, an iteration whose grids pass the three checks
\* writes the slice's region; one whose grids fail a check raises an
\* AssertionError and leaves the output array as it was.
C12_FastPathChecks ==
  (unit.pc = "called" /\ unit.interpolator.fn = "fast_sinc")
  => IF FastGridsMatch
     THEN /\ unit.out.ok
          /\ unit.output_data = unit.out.y
          /\ unit.output_data # AxisZeros(Size(unit.output_values))
     ELSE /\ ~unit.out.ok
          /\ unit.out.err = "AssertionError"
          /\ unit.output_data = AxisZeros(Size(unit.output_values))

C12_Witness ==
  /\ unit.pc = "called"
  /\ unit.interpolator.fn = "fast_sinc"
  /\ GridSpacingIs(unit.output_values,
                   RSub(unit.output_values[1], unit.output_values[0]))
  /\ Size(unit.desc.input_values) = Size(unit.output_values)
  /\ ~FastGridsMatch
  /\ ~unit.out.ok

\* The two routes of an iteration, on the slice's data d.
FastRoute(d) ==
  AxisFast(d, unit.output_data, <<SliceAll, unit.desc.output_indices>>,
           unit.desc.input_values, unit.output_values,
           Size(unit.desc.input_values), Size(unit.output_values),
           RSub(unit.output_values[1], unit.output_values[0]))
FilterRoute(d) ==
  AxisFilter(make_filter(unit.interpolator, unit.desc.input_values,
                         unit.output_values),
             d, unit.output_data, <<SliceAll, unit.desc.output_indices>>)
RouteTaken(expected) ==
  /\ unit'.out.ok = expected.ok
  /\ unit'.out.err = expected.err
  /\ expected.ok => unit'.out.y = expected.y

\* C14: an iteration calls fast_sinc(fraction, data) directly exactly when
\* the interpolator is fast_sinc itself; every other interpolator, a wrapper
\* around fast_sinc among them, goes through make_filter, which calls it
\* with (input_times, samples).
C14_FastPathByIdentity ==
  [][AxisIteration
     => IF unit.interpolator.fn = "fast_sinc"
        THEN RouteTaken(FastRoute(unit.data))
        ELSE RouteTaken(FilterRoute(unit.data))]_vars

C14_Witness ==
  /\ unit.pc = "called"
  /\ unit.interpolator.fn = "fast_sinc_wrapper"
  /\ FastGridsMatch
  /\ ~unit.out.ok
  /\ unit.out.err \in {"TypeError", "ValueError"}

\* Slice j of a stacked array, time on axis 0 and the slice axis next.
SliceOf(a, j) == GetItem(a, <<SliceAll, PySlice(j, j + 1)>>).y

\* The slice's offset in units of the repetition time.
OffsetInSamples(j) == RDiv(image_list.slice_times[j], RepetitionTime)

\* C13: within slice_time the fast path resamples slice j with the fraction
\* -slice_times[j]/tr; for an offset of k whole samples the corrected volume
\* n holds the slice's sample n - k (circularly), the one acquired k samples
\* earlier when the offset is positive.
C13_FastFraction ==
  (pc = "done" /\ interpolator.fn = "fast_sinc" /\ image_list.slice_axis = 0)
  => \A j \in 0..(SliceCount - 1) :
       /\ SliceOf(heap[output_data], j)
            = fast_sinc(RNeg(OffsetInSamples(j)), SliceOf(heap[data], j))
       /\ RIsInt(OffsetInSamples(j))
          => \A idx \in IndexSet(heap[data].shape) :
               idx[2] = j
               => heap[output_data].v[idx]
                    = heap[data].v[[idx EXCEPT ![1] =
                                     (idx[1] - OffsetInSamples(j)[1]) % NVol]]

C13_Witness ==
  /\ pc = "done"
  /\ interpolator.fn = "fast_sinc"
  /\ \E j \in 0..(SliceCount - 1) :
       /\ RLt(RZero, image_list.slice_times[j])
       /\ RIsInt(OffsetInSamples(j))
       /\ SliceOf(heap[output_data], j) # SliceOf(heap[data], j)

\* --------------------------------------- fast_sinc's phase ramp on its own

\* Longest series the ramp is built for.
RampMaxLen == 6

\* Fractions of a sample, in quarters.
RampFractions == {Rat(n, 4) : n \in -6..6}

InitRamp ==
  /\ IdleCall
  /\ \E frac \in RampFractions, L \in 1..RampMaxLen :
       unit = [pc |-> "args", frac |-> frac, L |-> L, phs_ramp |-> <<>>]

\* Lines 92-102 of fast_sinc.
BuildRamp ==
  /\ unit.pc = "args"
  /\ unit' = [unit EXCEPT !.pc = "built", !.phs_ramp = phs_ramp(unit.frac, unit.L)]
  /\ UNCHANGED <<image_list, heap, cmheap, interpolator, pc, test, generator,
                 output_times, data, output_data, written, err, result, mutated,
                 flt>>

NextRamp == BuildRamp

SpecRamp == InitRamp /\ [][NextRamp]_vars

\* The complex conjugate of exp(i pi x), as a phase angle.
Conjugate(x) == Phase(RNeg(x))

\* C15: the ramp is Hermitian-symmetric for every length and fraction:
\* ramp[(L - k) mod L] is the conjugate of ramp[k] for every k, the Nyquist
\* index of an even L included.
C15_Hermitian ==
  unit.pc = "built"
  => \A k \in 0..(unit.L - 1) :
       unit.phs_ramp[(unit.L - k) % unit.L] = Conjugate(unit.phs_ramp[k])

\* ------------------------------------------------- sinc_interp on its own

\* Most mutations of the caller's samples between the build and the
\* evaluation.
SincMaxMutations == 2

\* A grid of spacing 1000 but for the last point, later by 0.01 (within
\* np.allclose's tolerance of that spacing, 1e-8 + 1e-5 * 1000).
JitterGrid ==
  [n \in 0..(NVol - 1) |->
    IF n = NVol - 1 THEN Rat(n * 100000 + 1, 100) ELSE RInt(n * 1000)]

\* Input grids: ascending, descending, unequally spaced, and the jittered one.
SincGrids ==
  {GridOf(NVol, 1, 0), GridOf(NVol, 2, 1), GridOf(NVol, -1, NVol - 1),
   NonUniform, JitterGrid}

\* The caller's samples, and the values a mutation assigns.
SincSamples ==
  {[n \in 0..(NVol - 1) |-> RInt((n * n + 1) % 3)],
   [n \in 0..(NVol - 1) |-> RInt(IF n = 1 THEN 1 ELSE 0)]}
MutationValues == {RInt(0), RInt(5)}

\* Output times, as sample positions on the input grid (t[0] + q * tr): the
\* two bounds of the accepted range, half a sample outside them, and points
\* inside.
SamplePositions ==
  {Rat(-3, 2), RInt(-1), RInt(0), Rat(1, 2), RInt(NVol), Rat(2 * NVol + 1, 2)}

\* The evaluator keeping the caller's array and no copy of it.
SincSamplesShared == "x"

\* x = np.asarray(x).copy(): where the evaluator's samples live.
SincSamplesRef == "copy"

InitSinc ==
  /\ IdleCall
  /\ \E t \in SincGrids, x \in SincSamples :
       unit = [pc |-> "args", t |-> t, heap |-> [r \in {"x"} |-> x],
               before |-> x, mutations |-> 0, f |-> Raise(""),
               tnew |-> <<>>, y |-> Raise("")]

\* f = sinc_interp(t, x)
SincBuilt(r) ==
  IF r.ok
  THEN unit' = [unit EXCEPT
                  !.pc = "built", !.f = r,
                  !.heap = [ref \in {"x", SincSamplesRef} |-> unit.heap["x"]]]
  ELSE unit' = [unit EXCEPT !.pc = "raised", !.f = r]

BuildSinc ==
  /\ unit.pc = "args"
  /\ SincBuilt(sinc_interp(unit.t, unit.heap["x"]))
  /\ UNCHANGED <<image_list, heap, cmheap, interpolator, pc, test, generator,
                 output_times, data, output_data, written, err, result, mutated,
                 flt>>

\* The caller assigns to an element of its samples array.
MutateSamples ==
  /\ unit.pc = "built"
  /\ unit.mutations < SincMaxMutations
  /\ \E i \in 0..(NVol - 1), v \in MutationValues :
       /\ unit.heap["x"][i] # v
       /\ unit' = [unit EXCEPT !.heap["x"][i] = v, !.mutations = unit.mutations + 1]
  /\ UNCHANGED <<image_list, heap, cmheap, interpolator, pc, test, generator,
                 output_times, data, output_data, written, err, result, mutated,
                 flt>>

\* The evaluator reads the samples it holds.
SincEvaluator == [unit.f.y EXCEPT !.x = unit.heap[SincSamplesRef]]

\* y = f(tnew), for two output times
EvaluateSinc ==
  /\ unit.pc = "built"
  /\ \E q \in [0..1 -> SamplePositions] :
       unit' = [unit EXCEPT
                  !.pc = "evaluated",
                  !.tnew = [o \in 0..1 |->
                             RAdd(unit.t[0], RMul(q[o], unit.f.y.tr))],
                  !.y = SincCall(SincEvaluator,
                                 [o \in 0..1 |->
                                   RAdd(unit.t[0], RMul(q[o], unit.f.y.tr))],
                                 2)]
  /\ UNCHANGED <<image_list, heap, cmheap, interpolator, pc, test, generator,
                 output_times, data, output_data, written, err, result, mutated,
                 flt>>

NextSinc == BuildSinc \/ MutateSamples \/ EvaluateSinc

SpecSinc == InitSinc /\ [][NextSinc]_vars

\* The spacing sinc_interp derives from the first two entries.
SincSpacing == RSub(unit.t[1], unit.t[0])

SomeDifferenceDiffers ==
  \E k \in 0..(NVol - 2) : RSub(unit.t[k + 1], unit.t[k]) # SincSpacing

\* |d - tr| <= 1e-8 + 1e-5 * |tr|
Tolerated(d, tr) ==
  RLe(RMul(RInt(100000000), RAbs(RSub(d, tr))),
      RAdd(ROne, RMul(RInt(1000), RAbs(tr))))

SomeDifferenceBeyondTolerance ==
  \E k \in 0..(NVol - 2) :
    ~Tolerated(RSub(unit.t[k + 1], unit.t[k]), SincSpacing)

\* C16, as stated: when a consecutive difference of input_times differs from
\* the spacing of the first two entries, the build fails and returns no
\* evaluator.
C16_RejectsAnyDifference ==
  (unit.pc # "args" /\ SomeDifferenceDiffers)
  => (unit.pc = "raised" /\ ~unit.f.ok)

\* C16, amended: the build fails, with an AssertionError and no evaluator,
\* exactly when a consecutive difference differs from the spacing by more
\* than 1e-8 + 1e-5 * |spacing|.
C16_RejectsBeyondTolerance ==
  unit.pc # "args"
  => /\ (unit.pc = "raised") <=> SomeDifferenceBeyondTolerance
     /\ unit.pc = "raised" => (~unit.f.ok /\ unit.f.err = "AssertionError")
     /\ unit.pc # "raised" => unit.f.ok

C16_Witness ==
  unit.pc = "raised" /\ SomeDifferenceBeyondTolerance /\ ~unit.f.ok

\* v lies below min(input_times) - tr or above max(input_times) + tr.
OutOfRange(v) ==
  \/ RLt(v, RSub(RMin(unit.t, NVol), SincSpacing))
  \/ RLt(RAdd(RMax(unit.t, NVol), SincSpacing), v)

\* C17: an evaluation fails, with an AssertionError, exactly when an output
\* time lies below min(input_times) - tr or above max(input_times) + tr.
C17_RangeError ==
  unit.pc = "evaluated"
  => /\ ~unit.y.ok <=> \E o \in 0..1 : OutOfRange(unit.tnew[o])
     /\ ~unit.y.ok => unit.y.err = "AssertionError"

C17_Witness ==
  /\ unit.pc = "evaluated"
  /\ unit.y.ok
  /\ unit.tnew[0] = RSub(RMin(unit.t, NVol), SincSpacing)
  /\ unit.tnew[1] = RAdd(RMax(unit.t, NVol), SincSpacing)

\* C18: an evaluation after any mutations of the caller's samples returns
\* what the evaluator built on the samples as they were at the build
\* returns.
C18_SamplesCopied ==
  unit.pc = "evaluated"
  => unit.y = SincCall(sinc_interp(unit.t, unit.before).y, unit.tnew, 2)

C18_Witness ==
  /\ unit.pc = "evaluated"
  /\ unit.y.ok
  /\ unit.mutations = SincMaxMutations
  /\ unit.y # SincCall(sinc_interp(unit.t, unit.heap["x"]).y, unit.tnew, 2)

\* ------------------------------------------------------------------------
\* detrend(interpolator)(input_times, samples) used on its own: the caller
\* builds the detrending interpolator on its samples array, then evaluates
\* it at two output times.

\* The samples are a line a1 * t + a0 plus a residual that has no fitted
\* first-order trend.
TrendLines ==
  {[a1 |-> a1, a0 |-> a0] : a1 \in {RZero, ROne, Rat(1, 2)},
                            a0 \in {RZero, RInt(3), Rat(-1, 6)}}

ZeroTrend(t, x) == polyfit(t, x, Size(t)) = [a1 |-> RZero, a0 |-> RZero]

Residuals(t) ==
  {x \in [0..(NVol - 1) -> {RInt(-2), Rat(-1, 3), RZero, Rat(1, 6), ROne}] :
     ZeroTrend(t, x)}

DetrendGrids == {GridOf(NVol, 1, 0), GridOf(NVol, 2, 1), NonUniform}

\* The interpolators detrend decorates in this module, with the keywords
\* passed through to them.
DetrendInterpolators ==
  {[fn |-> "interp1d", kw |-> KwDefault], [fn |-> "interp1d", kw |-> KwFill],
   [fn |-> "interp1d", kw |-> KwNoCopy], [fn |-> "sinc_interp", kw |-> KwDefault]}

\* The samples array's dtype; an integer array holds integers only.
Dtypes(x) ==
  IF \A i \in 0..(NVol - 1) : RIsInt(x[i]) THEN {"float", "int"} ELSE {"float"}

\* numpy's casting rule for the output of an in-place operation.
CastingRules == {"unsafe", "same_kind"}

DetrendArgs(interp, t, p, residual, x, dtype, casting) ==
  [pc |-> "args", interp |-> interp, t |-> t, trend |-> p,
   residual |-> residual, samples |-> x, before |-> x, dtype |-> dtype,
   casting |-> casting, f |-> Raise(""), tnew |-> <<>>, y |-> Raise("")]

DetrendSamples(interp, t, p, residual, x) ==
  \E dtype \in Dtypes(x), casting \in CastingRules :
    unit = DetrendArgs(interp, t, p, residual, x, dtype, casting)

InitDetrend ==
  /\ IdleCall
  /\ \E interp \in DetrendInterpolators, t \in DetrendGrids, p \in TrendLines :
       \E residual \in Residuals(t) :
         DetrendSamples(interp, t, p, residual,
                        [i \in 0..(NVol - 1) |->
                          RAdd(Trends(t, NVol, p)[i], residual[i])])

\* f = detrend(interpolator)(input_times, samples, **kw)
DetrendBuilt(r) ==
  unit' = [unit EXCEPT !.pc = IF r.ok THEN "built" ELSE "raised",
                       !.f = r, !.samples = r.x]

BuildDetrend ==
  /\ unit.pc = "args"
  /\ DetrendBuilt(new_interpolator(unit.interp.fn, unit.interp.kw, unit.t,
                                   unit.samples, unit.dtype, unit.casting))
  /\ UNCHANGED <<image_list, heap, cmheap, interpolator, pc, test, generator,
                 output_times, data, output_data, written, err, result, mutated,
                 flt>>

DetrendEvaluated(tnew) ==
  unit' = [unit EXCEPT !.pc = "evaluated", !.tnew = tnew,
                       !.y = CallBuilt(unit.f, tnew)]

\* y = f(tnew), for two output times
EvaluateDetrend ==
  /\ unit.pc = "built"
  /\ \E q \in [0..1 -> SamplePositions] :
       DetrendEvaluated([o \in 0..1 |->
                          RAdd(unit.t[0],
                               RMul(q[o], RSub(unit.t[1], unit.t[0])))])
  /\ UNCHANGED <<image_list, heap, cmheap, interpolator, pc, test, generator,
                 output_times, data, output_data, written, err, result, mutated,
                 flt>>

NextDetrend == BuildDetrend \/ EvaluateDetrend

SpecDetrend == InitDetrend /\ [][NextDetrend]_vars

\* C19: when the build of a detrending interpolator returns, every element
\* of the caller's samples array holds the value it had before the call.
C19_SamplesRestored ==
  unit.pc \in {"built", "evaluated"} => unit.samples = unit.before

\* The undecorated interpolator built on the residual alone, evaluated at the
\* output times, plus the trend at the output times.
ResidualPlusTrend ==
  AddTrends(CallBuilt(Untouched(BaseBuild(unit.interp.fn, unit.interp.kw,
                                          unit.t, unit.residual),
                                unit.residual),
                      unit.tnew),
            Trends(unit.tnew, 2, unit.trend), 2)

\* C20: for samples that are a line plus a residual without fitted trend,
\* the detrending interpolator's values at the output times are those of the
\* undecorated interpolator built on the residual alone plus the line at the
\* output times.
C20_RoundTrip == unit.pc = "evaluated" => unit.y = ResidualPlusTrend

\* C21: the detrending evaluator's values are those of the wrapped
\* interpolator on the detrended residual plus the trend, added once, whether
\* the wrapped interpolator copies its samples or keeps a reference to them.
C21_ComposesWithAny ==
  (unit.pc = "evaluated" /\ unit.dtype = "float")
  => unit.y = ResidualPlusTrend

\* C26: when the wrapped interpolator's build raises, the caller's samples
\* hold their original values.
C26_RestoredOnError ==
  unit.pc = "raised" => unit.samples = unit.before

\* ------------------------------------------------------------------------
\* One pass of axis_interpolator, with the calls of make_filter counted.

InitBuilds == PassArgs /\ unit = [pc |-> "builds", builds |-> 0]

\* The calls of make_filter in one iteration: one, unless the slice's data
\* could not be taken (line 234 raised) or the interpolator is fast_sinc.
FilterBuilds(d, interp) == IF d.ok /\ interp.fn # "fast_sinc" THEN 1 ELSE 0

CountedSlice ==
  /\ SliceStep
  /\ unit' = [unit EXCEPT
                !.builds = @ + FilterBuilds(
                  GetItem(heap[data],
                          <<SliceAll,
                            slice_generator(image_list.volume_start_times,
                                            image_list.slice_times,
                                            image_list.slice_axis,
                                            generator.j).input_indices>>),
                  interpolator)]

NextBuilds == CountedSlice \/ LoopEnd

SpecBuilds == InitBuilds /\ [][NextBuilds]_vars

DistinctOffsets ==
  {image_list.slice_times[j] : j \in 0..(SliceCount - 1)}

\* C22: in a pass that uses the linear filter, the filter is built once for
\* every distinct slice offset: the number of builds is the number of
\* distinct offsets.
C22_BuiltOncePerOffset ==
  (pc = "wrap" /\ interpolator.fn # "fast_sinc")
  => unit.builds = Cardinality(DistinctOffsets)

\* ------------------------------------------------------------------------
\* slice_time with sinc_interp on a sinusoid sampled over one full period.

\* sin(2 pi k / N) at k = 0..N-1 for the period of N = 4 samples, the one
\* whose samples are rational.
SineSamples == <<0, 1, 0, -1>>

PeriodLen == Len(SineSamples)

\* The sinusoid at the time of sample k, any integer.
Sine(k) == RInt(SineSamples[(k % PeriodLen) + 1])

\* Per-voxel constants.
VoxelConstants ==
  {[idx \in IndexSet(Shape) |-> RZero],
   [idx \in IndexSet(Shape) |-> RInt(idx[1] * D1 + idx[2] - 1)],
   [idx \in IndexSet(Shape) |-> RInt(10)]}

\* The series tempo + vol: the sinusoid at the volume's time plus the
\* voxel's constant.
PeriodicData(c) ==
  Array(<<PeriodLen>> \o Shape,
        [idx \in IndexSet(<<PeriodLen>> \o Shape) |->
          NumOfRat(RAdd(Sine(idx[1]), c[Tail(idx)]))])

PeriodicSeries(tr, shift, c) ==
  /\ image_list = [data |-> "image",
                   coordmap |-> [n \in 0..(PeriodLen - 1) |-> 1],
                   volume_start_times |-> GridOf(PeriodLen, tr, 0),
                   slice_times |-> [j \in 0..(D0 - 1) |-> RInt(shift[j] * tr)],
                   slice_axis |-> 0]
  /\ heap = [r \in {"image"} |-> PeriodicData(c)]
  /\ unit = [pc |-> "periodic", tr |-> tr, shift |-> shift, constant |-> c]

\* Slice offsets of a whole number of samples, inside the range sinc_interp
\* accepts.
InitPeriodic ==
  /\ \E tr \in {1, 2}, shift \in [0..(D0 - 1) -> {-1, 0, 1}],
        c \in VoxelConstants : PeriodicSeries(tr, shift, c)
  /\ cmheap = [n \in 1..NVol |-> "cmapA"]
  /\ interpolator = [fn |-> "sinc_interp", kw |-> KwDefault]
  /\ pc = "validate"
  /\ test = FALSE
  /\ generator = [j |-> 0]
  /\ output_times = <<>>
  /\ data = ""
  /\ output_data = ""
  /\ written = {}
  /\ err = ""
  /\ result = <<>>
  /\ mutated = FALSE
  /\ flt = NoFilter

NextPeriodic == Validate \/ Setup \/ NextSlice \/ LoopEnd \/ Wrap

SpecPeriodic == InitPeriodic /\ [][NextPeriodic]_vars

\* exact_sig: the sinusoid at t - s plus the voxel's constant, at volume k.
ExactSignal(v) ==
  [k \in 0..(PeriodLen - 1) |->
    RAdd(Sine(k - unit.shift[v[1]]), unit.constant[v])]

\* interp_sig: the returned series at voxel v.
InterpSignal(v) ==
  [k \in 0..(PeriodLen - 1) |-> RatOf(heap[result[1].data].v[<<k>> \o v])]

Energy(x) == RSum([k \in 0..(PeriodLen - 1) |-> RMul(x[k], x[k])], PeriodLen)

ResidualEnergy(exact, interp) ==
  Energy([k \in 0..(PeriodLen - 1) |-> RSub(exact[k], interp[k])])

\* C23: at every voxel the returned series differs from the sinusoid at
\* t - s plus the voxel's constant by less than 1% of that signal's energy.
C23_PeriodicAccuracy ==
  pc = "done"
  => \A v \in IndexSet(Shape) :
       RLt(RMul(RInt(100),
                ResidualEnergy(ExactSignal(v), InterpSignal(v))),
           Energy(ExactSignal(v)))

\* ------------------------------------------------------------------------
\* slice_time with sinc_interp: the slice offsets it accepts.

\* -tr <= slice_times[j] <= tr for every slice j, tr the spacing of the
\* volume start times.
OffsetsWithinSpacing ==
  \A j \in DOMAIN image_list.slice_times :
    /\ RLe(RNeg(RepetitionTime), image_list.slice_times[j])
    /\ RLe(image_list.slice_times[j], RepetitionTime)

\* C27: for uniformly spaced volume start times, slice_time with sinc_interp
\* completes exactly when every slice offset lies in [-tr, tr]; with an
\* offset outside, the call fails.
C27_CompletesIffWithinSpacing ==
  (CallEnded /\ interpolator.fn = "sinc_interp" /\ UniformGrid)
  => (pc = "done" <=> OffsetsWithinSpacing)

\* ------------------------------------------------------------------------
\* The output elements a slice's processing writes.

\* The region of the output buffer that descriptor j's output selector
\* takes.
OutputRegion(j) ==
  Region(heap[output_data].shape,
         <<SliceAll,
           slice_generator(image_list.volume_start_times,
                           image_list.slice_times, image_list.slice_axis,
                           j).output_indices>>)

\* Two regions share no element: on some axis their ranges do not meet.
RegionsDisjoint(r1, r2) ==
  \E q \in 1..Len(r1.y.shape) :
    \/ r1.y.lo[q] + r1.y.shape[q] <= r2.y.lo[q]
    \/ r2.y.lo[q] + r2.y.shape[q] <= r1.y.lo[q]

\* The step that processes slice j assigns the region of slice-axis index j,
\* for the first time, and changes no element outside it.
WritesOnlySlice(j) ==
  /\ j \notin written
  /\ written' = written \cup {j}
  /\ RegionIsSlice(OutputRegion(j), heap[output_data].shape, j)
  /\ \A k \in 0..(SliceCount - 1) :
       k # j => (OutputRegion(k).ok
                 /\ RegionsDisjoint(OutputRegion(j), OutputRegion(k)))
  /\ \A idx \in IndexSet(heap[output_data].shape) :
       SliceAxisOf(idx) # j
       => heap'[output_data].v[idx] = heap[output_data].v[idx]

\* C25: in a pass driven by slice_generator, processing slice j writes the
\* output elements of slice-axis index j and no other element; the regions
\* of distinct slices are disjoint, and when the pass completes every slice's
\* region has been written, each one time.
C25_WritesOwnRegionOnce ==
  [][/\ (pc \in {"loop"} /\ heap'[output_data] # heap[output_data])
        => written' # written
     /\ written' # written => WritesOnlySlice(generator.j)
     /\ pc' = "wrap" => written' = 0..(SliceCount - 1)]_vars

C25_Witness ==
  /\ pc = "wrap"
  /\ SliceCount > 1
  /\ written = 0..(SliceCount - 1)
  /\ \A j \in 0..(SliceCount - 1) :
       \E idx \in IndexSet(heap[output_data].shape) :
         SliceAxisOf(idx) = j /\ heap[output_data].v[idx] # NZero

\* ------------------------------------------------------------------------
\* The slices of one pass processed in any order: a worker per slice runs
\* the loop's body for its descriptor on the shared output buffer.

\* The slice offsets of the passes: none, and one sample of the first grid.
WorkerOffsets == {0, 1}

InitOrder ==
  PassArgsOver(WorkerOffsets) /\ unit = [pc |-> "workers", order |-> <<>>]

Processed == {unit.order[i] : i \in 1..Len(unit.order)}

WorkerOutcome(r, j) ==
  IF r.ok
  THEN /\ heap' = [heap EXCEPT ![output_data] = r.y]
       /\ written' = written \cup {j}
       /\ unit' = [unit EXCEPT !.order = Append(@, j)]
       /\ UNCHANGED <<pc, err>>
  ELSE /\ pc' = "error"
       /\ err' = r.err
       /\ UNCHANGED <<heap, written, unit>>

\* The body of axis_interpolator's loop for a descriptor not yet processed.
Worker ==
  /\ pc = "loop"
  /\ \E j \in (0..(SliceCount - 1)) \ Processed :
       WorkerOutcome(AxisBody(heap[data], heap[output_data],
                              slice_generator(image_list.volume_start_times,
                                              image_list.slice_times,
                                              image_list.slice_axis, j),
                              output_times, interpolator),
                     j)
  /\ UNCHANGED <<image_list, cmheap, interpolator, test, generator,
                 output_times, data, output_data, result, mutated, flt>>

\* Every descriptor has been processed.
WorkersEnd ==
  /\ pc = "loop"
  /\ Processed = 0..(SliceCount - 1)
  /\ pc' = "wrap"
  /\ UNCHANGED <<image_list, heap, cmheap, interpolator, test, generator,
                 output_times, data, output_data, written, err, result, mutated,
                 flt, unit>>

NextOrder == Worker \/ WorkersEnd

SpecOrder == InitOrder /\ [][NextOrder]_vars

\* The output buffer as the pass gets it.
EmptyOutput ==
  Array(heap[output_data].shape,
        [idx \in IndexSet(heap[output_data].shape) |-> NZero])

\* The pass in the generator's order, slices j and up, on the buffer buf.
RECURSIVE SequentialPass(_, _)
SequentialPass(buf, j) ==
  IF ~buf.ok \/ j >= SliceCount THEN buf
  ELSE SequentialPass(AxisBody(heap[data], buf.y,
                               slice_generator(image_list.volume_start_times,
                                               image_list.slice_times,
                                               image_list.slice_axis, j),
                               output_times, interpolator),
                      j + 1)

\* The input data with every slice but slice j set to zero.
OnlySlice(j) ==
  Array(heap[data].shape,
        [idx \in IndexSet(heap[data].shape) |->
          IF SliceAxisOf(idx) = j THEN heap[data].v[idx] ELSE NZero])

\* Slice j processed alone: on an empty buffer, with no other slice's data.
AloneResult(j) ==
  AxisBody(OnlySlice(j), EmptyOutput,
           slice_generator(image_list.volume_start_times,
                           image_list.slice_times, image_list.slice_axis, j),
           output_times, interpolator)

\* An empty buffer holding slice j's region of the output buffer.
OwnRegionOnly(j) ==
  SetRegion(EmptyOutput, OutputRegion(j),
            GetRegion(heap[output_data], OutputRegion(j)).y)

====
